---------------------------- MODULE Spec2Model ----------------------------
(***************************************************************************)
(* A model of src/a.py: the ASN prefix aggregator.                         *)
(*                                                                         *)
(*   normalize_asn            the ASN normaliser                           *)
(*   get_bgptools_lines       the bulk table cache                         *)
(*   fetch_prefixes_bgpview   adapter A (prefix lookup API #1)             *)
(*   fetch_prefixes_ripe      adapter B (prefix lookup API #2)             *)
(*   fetch_prefixes_bgptools  adapter C (bulk table scan)                  *)
(*   process_asn              the aggregator                               *)
(*   main                     the run over the ASN arguments               *)
(*                                                                         *)
(* Strings are sequences of one-character strings, so that strip, upper,   *)
(* startswith, int() and the ordering used by sorted() are computed and    *)
(* not assumed.  A Python exception is a value: every modelled function    *)
(* returns a record [exc, val] whose exc is "none" or the exception's      *)
(* class name, and an exception nobody catches ends the run.               *)
(***************************************************************************)
EXTENDS Integers, Sequences, FiniteSets, TLC

VARIABLES
    pc,                 \* position of main: see the actions
    nargs,              \* len(args.asns)
    idx,                \* number of ASN arguments taken from args.asns so far
    asn,                \* main's local asn (normalised), "" before the loop
    dest_isdir,         \* os.path.isdir(dest_folder)
    exit_status,        \* -1 while running, then the process's exit status
    exc,                \* the exception that ended the run, or "none"
    cache,              \* the file BGPT_CACHE_FILE: [exists, content, mtime]
    now,                \* the last value read from time.time()
    prefixes_bgpview,   \* process_asn's local of that name
    prefixes_ripe,      \* process_asn's local of that name
    prefixes_bgptools,  \* process_asn's local of that name
    combined_prefixes,  \* process_asn's set of that name
    sorted_prefixes,    \* process_asn's result
    files,              \* the output files: normalised ASN -> lines written
    calls,              \* per ASN: how often each adapter was invoked
    net,                \* per ASN: the network requests each adapter issued
    gbl,                \* SpecCache: what the last get_bgptools_lines did
    norm_in, norm_out,  \* normalize_asn: argument and result (SpecNorm)
    scan_in, scan_out,  \* fetch_prefixes_bgptools: asn, lines; result (SpecScan)
    wrote,              \* main: how the last write of an output file ended
    procs               \* SpecConc: the concurrent calls of get_bgptools_lines

vars == << pc, nargs, idx, asn, dest_isdir, exit_status, exc, cache, now,
           prefixes_bgpview, prefixes_ripe, prefixes_bgptools,
           combined_prefixes, sorted_prefixes, files, calls, net, gbl,
           norm_in, norm_out, scan_in, scan_out, wrote, procs >>

mainVars == << pc, nargs, idx, asn, dest_isdir, exit_status, exc, cache, now,
               prefixes_bgpview, prefixes_ripe, prefixes_bgptools,
               combined_prefixes, sorted_prefixes, files, calls, net, gbl,
               wrote, procs >>

-----------------------------------------------------------------------------
(* Bounds *)

\* longest argument string given to normalize_asn in SpecNorm
MaxLen == 4
\* most ASN arguments of one run
MaxArgs == 2
\* most entries of one prefix list in a lookup API's payload
MaxEntries == 1
\* most lines of the bulk table in SpecScan
MaxLines == 2

\* BGPT_CACHE_EXPIRATION, seconds
BGPT_CACHE_EXPIRATION == 86400

-----------------------------------------------------------------------------
(* Strings *)

\* The characters of the model in code point order, which is the order
\* Python compares strings by.
CodeOrder == << " ", "-", "0", "1", "2", "9", "A", "S", "X", "a", "s", "x" >>

Ord(c) == CHOOSE i \in 1..Len(CodeOrder) : CodeOrder[i] = c

Digits == { "0", "1", "2", "9" }
Whitespace == { " " }

\* str.upper, character by character
UpperChar(c) ==
    CASE c = "a" -> "A"
      [] c = "s" -> "S"
      [] c = "x" -> "X"
      [] OTHER   -> c

Upper(s) == [ i \in 1..Len(s) |-> UpperChar(s[i]) ]

IsLowerChar(c) == c \in { "a", "s", "x" }

\* str.strip: drop the leading and the trailing whitespace
RECURSIVE LStrip(_)
LStrip(s) ==
    IF s # << >> /\ Head(s) \in Whitespace THEN LStrip(Tail(s)) ELSE s

RECURSIVE RStrip(_)
RStrip(s) ==
    IF s # << >> /\ s[Len(s)] \in Whitespace
    THEN RStrip(SubSeq(s, 1, Len(s) - 1))
    ELSE s

\* (StripLeft: only the leading whitespace is dropped, as lstrip does)
StripLeft(s) == LStrip(s)

Strip(s) == RStrip(LStrip(s))

\* str.startswith
StartsWith(s, p) == Len(s) >= Len(p) /\ SubSeq(s, 1, Len(p)) = p

AS == << "A", "S" >>

\* s[2:]
DropTwo(s) == IF Len(s) <= 2 THEN << >> ELSE SubSeq(s, 3, Len(s))

DigitVal(c) ==
    CASE c = "0" -> 0
      [] c = "1" -> 1
      [] c = "2" -> 2
      [] c = "9" -> 9

RECURSIVE DecimalValue(_)
DecimalValue(s) ==
    IF s = << >> THEN 0
    ELSE 10 * DecimalValue(SubSeq(s, 1, Len(s) - 1)) + DigitVal(s[Len(s)])

IsDigits(s) == s # << >> /\ \A i \in 1..Len(s) : s[i] \in Digits

\* int(s): surrounding whitespace is dropped, then an optional sign, then
\* one or more decimal digits; anything else is a ValueError.
ParseInt(s) ==
    LET t == Strip(s)
        neg == t # << >> /\ Head(t) = "-"
        d == IF neg THEN Tail(t) ELSE t
    IN  IF IsDigits(d)
        THEN [ ok |-> TRUE,
               val |-> IF neg THEN 0 - DecimalValue(d) ELSE DecimalValue(d) ]
        ELSE [ ok |-> FALSE, val |-> 0 ]

\* a < b in Python's string order
LexLess(a, b) ==
    \E i \in 1..Len(b) :
        /\ i - 1 <= Len(a)
        /\ \A j \in 1..(i - 1) : a[j] = b[j]
        /\ (i > Len(a) \/ Ord(a[i]) < Ord(b[i]))

\* the elements of a list
Range(s) == { s[i] : i \in 1..Len(s) }

\* the blanks of a padding of length n
Blanks(n) == [ k \in 1..n |-> " " ]

\* the parts of a string
SubSeqsOf(a) ==
    { SubSeq(a, i, j) : i \in 1..(Len(a) + 1), j \in 0..Len(a) }

\* all sequences over S of length at most n
SeqsUpTo(S, n) == UNION { [ 1..k -> S ] : k \in 0..n }

-----------------------------------------------------------------------------
(* normalize_asn *)

\* lines 57-60 (normalize_asn_noupper: without the call of upper)
normalize_asn_noupper(a) ==
    LET s == Strip(a)
    IN  IF StartsWith(s, AS) THEN s ELSE AS \o s

normalize_asn(a) ==
    LET s == Upper(Strip(a))
    IN  IF StartsWith(s, AS) THEN s ELSE AS \o s

-----------------------------------------------------------------------------
(* Values *)

\* Prefix strings.  Their order as strings, "1" < "10" < "9", differs from
\* their order as numbers and from their order by length.
P1 == << "1" >>
P10 == << "1", "0" >>
P9 == << "9" >>
\* the prefixes the lookup APIs answer with; the bulk table holds P1 too
Prefixes == { P10, P9 }

\* One line of the bulk table, by what json.loads makes of its text:
\*   "empty"   no text at all
\*   "bad"     text that is not JSON, such as {bad json
\*   "scalar"  JSON that is not an object, such as 5 or []
\*   "obj"     a JSON object; asn is its "ASN" member and cidr its "CIDR"
\*             member, each [t, v] with t = "absent" when the key is missing
\*             and v the digits of a JSON integer or the text of a string
AbsentVal == [ t |-> "absent", v |-> << >> ]
IntVal(d) == [ t |-> "int", v |-> d ]
StrVal(s) == [ t |-> "str", v |-> s ]
NullVal == [ t |-> "null", v |-> << >> ]

LineEmpty == [ k |-> "empty", asn |-> AbsentVal, cidr |-> AbsentVal ]
LineBad == [ k |-> "bad", asn |-> AbsentVal, cidr |-> AbsentVal ]
LineScalar == [ k |-> "scalar", asn |-> AbsentVal, cidr |-> AbsentVal ]
LineObj(a, c) == [ k |-> "obj", asn |-> a, cidr |-> c ]

\* the records {"ASN": d, "CIDR": "p"} of the upstream contract
Rec(d, p) == LineObj(IntVal(d), StrVal(p))

\* The file's content, and a response body, is a sequence of lines, each
\* ended by a newline.  A line handed to the scan is [text, nl]: readlines
\* keeps the newline of each line, splitlines drops it.
Readlines(content) ==
    [ i \in 1..Len(content) |-> [ text |-> content[i], nl |-> TRUE ] ]

Splitlines(content) ==
    [ i \in 1..Len(content) |-> [ text |-> content[i], nl |-> FALSE ] ]

\* the proper prefixes of a body: what a write that fails leaves in the file
ProperPrefixes(content) ==
    { << >> } \cup { SubSeq(content, 1, n) : n \in 0..(Len(content) - 1) }

-----------------------------------------------------------------------------
(* get_bgptools_lines *)

NoCache == [ exists |-> FALSE, content |-> << >>, mtime |-> 0 ]
CacheFile(content, mtime) ==
    [ exists |-> TRUE, content |-> content, mtime |-> mtime ]

TransportFailures == { "conn_error", "timeout", "http_error" }

\* time.time() - mod_time < BGPT_CACHE_EXPIRATION (CacheIsFreshInverted:
\* the comparison turned round)
CacheIsFreshInverted(mtime, t) == t - mtime >= BGPT_CACHE_EXPIRATION

CacheIsFresh(mtime, t) == t - mtime < BGPT_CACHE_EXPIRATION

\* What the environment does during one call:
\*   t           the value of time.time()
\*   read_fresh  whether reading the fresh cache file works (lines 30-31)
\*   net         the outcome of requests.get and raise_for_status
\*   body        response.text when net = "ok"
\*   write       "ok", "open_fail" (open(.., "w") raises: the file is as it
\*               was) or "write_fail" (open has truncated the file and the
\*               write or the close raises: the file holds `partial`)
\*   read_back   whether reading the fallback cache file works (lines 46-47)
\* The result: the file afterwards, the lines returned, the exception that
\* leaves the function, whether a request was made, whether the file was
\* opened for writing.
\* lines 40-41 when they succeed: the file is opened with "w" and holds the
\* body alone (PersistAppended: opened with "a", the body follows the old
\* content)
PersistAppended(c, e) == CacheFile(c.content \o e.body, e.t)

Persist(c, e) == CacheFile(e.body, e.t)

Download(c, e) ==
    IF e.net = "ok" /\ e.write = "ok"
    THEN \* lines 39-42
         [ cache |-> Persist(c, e), ret |-> Splitlines(e.body),
           exc |-> "none", fetched |-> TRUE, written |-> TRUE ]
    ELSE \* lines 43-51: the except clause
         LET truncated == e.net = "ok" /\ e.write = "write_fail"
             c2 == IF truncated THEN CacheFile(e.partial, e.t) ELSE c
         IN  IF c2.exists
             THEN IF e.read_back
                  THEN [ cache |-> c2, ret |-> Readlines(c2.content),
                         exc |-> "none", fetched |-> TRUE,
                         written |-> truncated ]
                  ELSE \* line 48 unbinds e at the end of its clause, and
                       \* line 50 reads it
                       [ cache |-> c2, ret |-> << >>,
                         exc |-> "UnboundLocalError", fetched |-> TRUE,
                         written |-> truncated ]
             ELSE [ cache |-> c2, ret |-> << >>, exc |-> "none",
                    fetched |-> TRUE, written |-> truncated ]

get_bgptools_lines(c, e) ==
    IF c.exists /\ CacheIsFresh(c.mtime, e.t) /\ e.read_fresh
    THEN \* lines 26-31
         [ cache |-> c, ret |-> Readlines(c.content), exc |-> "none",
           fetched |-> FALSE, written |-> FALSE ]
    ELSE Download(c, e)

-----------------------------------------------------------------------------
(* The lookup APIs' responses *)

\* An entry of a prefix list: an object with or without a "prefix" member,
\* or something that is no object (a number, or a string not holding the
\* text "prefix").
EntryObj(p) == [ k |-> "obj", has_prefix |-> TRUE, prefix |-> p ]
EntryNoPrefix == [ k |-> "obj", has_prefix |-> FALSE, prefix |-> << >> ]
EntryNumber == [ k |-> "number", has_prefix |-> FALSE, prefix |-> << >> ]
EntryString == [ k |-> "string", has_prefix |-> FALSE, prefix |-> << >> ]
Entries ==
    { EntryObj(p) : p \in Prefixes }
        \cup { EntryNoPrefix, EntryNumber, EntryString }

\* A member of "data" that should be a list: missing, a number, or a list.
ListAbsent == [ k |-> "absent", items |-> << >> ]
ListNumber == [ k |-> "number", items |-> << >> ]
ListOf(items) == [ k |-> "list", items |-> items ]
ListVals ==
    { ListAbsent, ListNumber }
        \cup { ListOf(items) : items \in SeqsUpTo(Entries, MaxEntries) }

\* A response: the outcome of requests.get and raise_for_status, and the
\* body by what response.json makes of it:
\*   "not_json"  the body is not JSON
\*   "array"     JSON whose top level is not an object
\*   "obj"       a JSON object: its "status" member ("ok", "error" or
\*               "absent"), its "data" member ("absent", "number" or "obj")
\*               and the lists inside "data"
Response(n, k, status, data, l1, l2) ==
    [ net |-> n, k |-> k, status |-> status, data |-> data,
      list1 |-> l1, list2 |-> l2 ]

ResponsesOver(L1, L2) ==
    { Response(n, "obj", "absent", "absent", ListAbsent, ListAbsent) :
        n \in TransportFailures }
    \cup { Response("ok", k, "absent", "absent", ListAbsent, ListAbsent) :
             k \in { "not_json", "array" } }
    \cup { Response("ok", "obj", st, "absent", ListAbsent, ListAbsent) :
             st \in { "error", "absent", "ok" } }
    \cup { Response("ok", "obj", "ok", "number", ListAbsent, ListAbsent) }
    \cup { Response("ok", "obj", "ok", "obj", l1, l2) : l1 \in L1, l2 \in L2 }

\* list1 is data.ipv4_prefixes and list2 is data.ipv6_prefixes
BgpviewResponses == ResponsesOver(ListVals, ListVals)
\* list1 is data.prefixes
RipeResponses == ResponsesOver(ListVals, { ListAbsent })

Returned(v) == [ exc |-> "none", val |-> v ]
Raised(x) == [ exc |-> x, val |-> << >> ]

\* for entry in <list>: if "prefix" in entry: prefixes.append(entry["prefix"])
\* from the entry at position i on, appending to acc
RECURSIVE ExtractFrom(_, _, _)
ExtractFrom(items, i, acc) ==
    IF i > Len(items) THEN Returned(acc)
    ELSE CASE items[i].k = "number" -> Raised("TypeError")
           [] items[i].k = "string" -> ExtractFrom(items, i + 1, acc)
           [] OTHER ->
                IF items[i].has_prefix
                THEN ExtractFrom(items, i + 1, Append(acc, items[i].prefix))
                ELSE ExtractFrom(items, i + 1, acc)

\* data.get("data", {}).get(<key>, []) and the loop over it
ExtractList(l, acc) ==
    CASE l.k = "absent" -> Returned(acc)
      [] l.k = "number" -> Raised("TypeError")
      [] OTHER -> ExtractFrom(l.items, 1, acc)

\* lines 74-77 and 100-103: response.json() and the status check; what is
\* returned here ends the adapter, "go on" is the path to the loops
ParseBody(r) ==
    CASE r.k = "not_json" -> Raised("JSONDecodeError")
      [] r.k = "array" -> Raised("AttributeError")
      [] r.status # "ok" -> Returned(<< >>)
      [] r.data = "absent" -> Returned(<< >>)
      [] r.data = "number" -> Raised("AttributeError")
      [] OTHER -> [ exc |-> "go on", val |-> << >> ]

fetch_prefixes_bgpview(r) ==
    IF r.net # "ok" THEN Returned(<< >>)
    ELSE LET b == ParseBody(r)
         IN  IF b.exc # "go on" THEN b
             ELSE LET v4 == ExtractList(r.list1, << >>)
                  IN  IF v4.exc # "none" THEN v4
                      ELSE ExtractList(r.list2, v4.val)

fetch_prefixes_ripe(r) ==
    IF r.net # "ok" THEN Returned(<< >>)
    ELSE LET b == ParseBody(r)
         IN  IF b.exc # "go on" THEN b
             ELSE ExtractList(r.list1, << >>)

-----------------------------------------------------------------------------
(* fetch_prefixes_bgptools *)

\* lines 115-119: int(asn[2:]) if asn.startswith("AS") else int(asn)
\* (NumericAsnLenient: text that is no integer counts as 0)
NumericAsnLenient(a) ==
    LET n == IF StartsWith(a, AS) THEN ParseInt(DropTwo(a)) ELSE ParseInt(a)
    IN  [ ok |-> TRUE, val |-> n.val ]

NumericAsn(a) == IF StartsWith(a, AS) THEN ParseInt(DropTwo(a)) ELSE ParseInt(a)

\* if line: a string is true unless it is empty
LineIsTrue(line) == line.nl \/ line.text.k # "empty"

\* lines 126-132 for one line: the CIDR it contributes, << >> when none.
\* json.loads raises on text that is no JSON (also when only the newline is
\* there), entry.get raises when the value is no object; both are caught.
Contribution(line, numeric_asn) ==
    LET entry == line.text
    IN  IF /\ entry.k = "obj"
           /\ entry.asn.t = "int"
           /\ DecimalValue(entry.asn.v) = numeric_asn
           /\ entry.cidr.t = "str"
           /\ entry.cidr.v # << >>
        THEN << entry.cidr.v >>
        ELSE << >>

\* lines 122-133: the scan of the lines
\* (ScanLinesUntilBad: the except clause ends the loop instead of going on)
RECURSIVE ScanLinesUntilBad(_, _)
ScanLinesUntilBad(lines, numeric_asn) ==
    IF lines = << >> \/ Head(lines).text.k \in { "bad", "scalar" }
    THEN << >>
    ELSE (IF LineIsTrue(Head(lines))
          THEN Contribution(Head(lines), numeric_asn)
          ELSE << >>) \o ScanLinesUntilBad(Tail(lines), numeric_asn)

RECURSIVE ScanLines(_, _)
ScanLines(lines, numeric_asn) ==
    IF lines = << >> THEN << >>
    ELSE (IF LineIsTrue(Head(lines))
          THEN Contribution(Head(lines), numeric_asn)
          ELSE << >>) \o ScanLines(Tail(lines), numeric_asn)

\* the whole adapter, given the cache file and what the environment does:
\* [exc, val] and what get_bgptools_lines did ("called" is FALSE when the
\* adapter returned before calling it)
NotCalled(c) ==
    [ called |-> FALSE, cache |-> c, ret |-> << >>, exc |-> "none",
      fetched |-> FALSE, written |-> FALSE ]

fetch_prefixes_bgptools(a, c, e) ==
    LET n == NumericAsn(a)
    IN  IF ~n.ok
        THEN [ exc |-> "none", val |-> << >>, lines |-> NotCalled(c) ]
        ELSE LET g == get_bgptools_lines(c, e)
             IN  [ exc |-> g.exc,
                   val |-> IF g.exc = "none" THEN ScanLines(g.ret, n.val)
                           ELSE << >>,
                   lines |-> [ called |-> TRUE ] @@ g ]

-----------------------------------------------------------------------------
(* process_asn: the merge *)

\* for prefix in <list>: combined_prefixes.add(prefix)
\* (AddAllReplacing: the set is assigned from the list instead)
AddAllReplacing(combined, list) ==
    IF list = << >> THEN combined ELSE Range(list)

AddAll(combined, list) == combined \cup Range(list)

\* sorted(<set of strings>)
\* (SortedShortFirst: sorted with key=len first, then the string)
RECURSIVE SortedShortFirst(_)
SortedShortFirst(S) ==
    IF S = {} THEN << >>
    ELSE LET least == CHOOSE x \in S : \A y \in S :
                        \/ x = y
                        \/ Len(x) < Len(y)
                        \/ Len(x) = Len(y) /\ LexLess(x, y)
         IN  << least >> \o SortedShortFirst(S \ { least })

RECURSIVE Sorted(_)
Sorted(S) ==
    IF S = {} THEN << >>
    ELSE LET least == CHOOSE x \in S : \A y \in S : x = y \/ LexLess(x, y)
         IN  << least >> \o Sorted(S \ { least })

-----------------------------------------------------------------------------
(* The environment *)

\* the ASN arguments: "1", "as2", " AS1 " and "x"
ArgPool ==
    { << "1" >>, << "a", "s", "2" >>, << " ", "A", "S", "1", " " >>,
      << "x" >> }

\* the output file names, without ".txt"
Names == { normalize_asn(a) : a \in ArgPool }

\* bulk tables: the responses of the bulk dataset endpoint and the first
\* content of the cache file
Table1 == << LineBad, Rec(<< "1" >>, P10), LineEmpty >>
Table2 == << Rec(<< "1" >>, P1), Rec(<< "2" >>, P9) >>
Tables == { << >>, Table1, Table2 }

\* the cache file when a run starts: none, or one written at time 0
FirstCaches == { NoCache } \cup { CacheFile(b, 0) : b \in Tables }

\* the values time.time() takes: one hour, 24 hours and 25 hours after
\* time 0
Times == { 3600, 86400, 90000 }

\* what the environment can do during a call of get_bgptools_lines made
\* when the clock was last read as `last`
CacheEnv(t, rf, n, body, w, partial, rb) ==
    [ t |-> t, read_fresh |-> rf, net |-> n, body |-> body, write |-> w,
      partial |-> partial, read_back |-> rb ]

CacheEnvs(last) ==
    { CacheEnv(t, rf, n, << >>, "ok", << >>, rb) :
        t \in { x \in Times : x >= last }, rf \in BOOLEAN,
        n \in TransportFailures, rb \in BOOLEAN }
    \cup { CacheEnv(t, rf, "ok", body, w, << >>, rb) :
        t \in { x \in Times : x >= last }, rf \in BOOLEAN,
        body \in Tables, w \in { "ok", "open_fail" }, rb \in BOOLEAN }
    \cup UNION { { CacheEnv(t, rf, "ok", body, "write_fail", partial, rb) :
                     t \in { x \in Times : x >= last }, rf \in BOOLEAN,
                     partial \in ProperPrefixes(body), rb \in BOOLEAN } :
                 body \in Tables }

NoEnv == CacheEnv(0, TRUE, "ok", << >>, "ok", << >>, TRUE)

NoFile == [ exists |-> FALSE, lines |-> << >> ]
OutFile(lines) == [ exists |-> TRUE, lines |-> lines ]

NoCalls == [ bgpview |-> 0, ripe |-> 0, bgptools |-> 0, lines |-> 0 ]
NoNet == [ bgpview |-> << >>, ripe |-> << >>, bgptools |-> << >> ]
NoGbl == [ env |-> NoEnv, pre |-> NoCache, out |-> NotCalled(NoCache) ]

\* the variables of the function specifications, at rest
Unused == [ done |-> FALSE, val |-> << >> ]
NoScan == [ asn |-> << >>, table |-> << >>, cached |-> FALSE ]
\* no concurrent calls
NoProcs == << >>

-----------------------------------------------------------------------------
(* process_asn, adapter by adapter *)

\* an exception nobody catches: neither process_asn nor main has a handler
\* around the adapters, so the interpreter prints the traceback and exits
\* with status 1
Crash(x) ==
    /\ pc' = "crashed"
    /\ exc' = x
    /\ exit_status' = 1

\* requests.get is called once: the outcome joins the requests issued for
\* this ASN (IssueRequestAgain: a request that failed is issued once more)
IssueRequestAgain(log, outcome) ==
    IF outcome = "ok" THEN Append(log, outcome)
    ELSE log \o << outcome, outcome >>

IssueRequest(log, outcome) == Append(log, outcome)

\* lines 142-150 with fetch_prefixes_bgpview, the API answering from R
CallBgpview(R) ==
    /\ pc = "bgpview"
    /\ \E r \in R :
         LET res == fetch_prefixes_bgpview(r)
         IN  /\ calls' = [ calls EXCEPT !.bgpview = @ + 1 ]
             /\ net' = [ net EXCEPT !.bgpview = IssueRequest(@, r.net) ]
             /\ IF res.exc = "none"
                THEN /\ prefixes_bgpview' = res.val
                     /\ combined_prefixes' = AddAll(combined_prefixes, res.val)
                     /\ pc' = "ripe"
                     /\ UNCHANGED << exc, exit_status >>
                ELSE /\ Crash(res.exc)
                     /\ UNCHANGED << prefixes_bgpview, combined_prefixes >>
    /\ UNCHANGED << nargs, idx, asn, dest_isdir, cache, now, prefixes_ripe,
                    prefixes_bgptools, sorted_prefixes, files, gbl,
                    norm_in, norm_out, scan_in, scan_out, wrote, procs >>

\* lines 152-160 with fetch_prefixes_ripe, the API answering from R
CallRipe(R) ==
    /\ pc = "ripe"
    /\ \E r \in R :
         LET res == fetch_prefixes_ripe(r)
         IN  /\ calls' = [ calls EXCEPT !.ripe = @ + 1 ]
             /\ net' = [ net EXCEPT !.ripe = IssueRequest(@, r.net) ]
             /\ IF res.exc = "none"
                THEN /\ prefixes_ripe' = res.val
                     /\ combined_prefixes' = AddAll(combined_prefixes, res.val)
                     /\ pc' = "bgptools"
                     /\ UNCHANGED << exc, exit_status >>
                ELSE /\ Crash(res.exc)
                     /\ UNCHANGED << prefixes_ripe, combined_prefixes >>
    /\ UNCHANGED << nargs, idx, asn, dest_isdir, cache, now,
                    prefixes_bgpview, prefixes_bgptools, sorted_prefixes,
                    files, gbl, norm_in, norm_out, scan_in, scan_out, wrote,
                    procs >>

\* lines 162-176 with fetch_prefixes_bgptools and get_bgptools_lines, the
\* environment acting as one of E; then process_asn sorts and returns
CallBgptools(E) ==
    /\ pc = "bgptools"
    /\ \E e \in E :
         LET res == fetch_prefixes_bgptools(asn, cache, e)
             g == res.lines
         IN  /\ calls' = [ calls EXCEPT
                             !.bgptools = @ + 1,
                             !.lines = IF g.called THEN @ + 1 ELSE @ ]
             /\ net' = [ net EXCEPT !.bgptools =
                           IF g.fetched THEN IssueRequest(@, e.net)
                           ELSE @ ]
             /\ cache' = g.cache
             /\ now' = IF g.called THEN e.t ELSE now
             /\ IF res.exc = "none"
                THEN /\ prefixes_bgptools' = res.val
                     /\ combined_prefixes' = AddAll(combined_prefixes, res.val)
                     /\ sorted_prefixes' = Sorted(combined_prefixes')
                     /\ pc' = "write"
                     /\ UNCHANGED << exc, exit_status >>
                ELSE /\ Crash(res.exc)
                     /\ UNCHANGED << prefixes_bgptools, combined_prefixes,
                                     sorted_prefixes >>
    /\ UNCHANGED << nargs, idx, asn, dest_isdir, prefixes_bgpview,
                    prefixes_ripe, files, gbl,
                    norm_in, norm_out, scan_in, scan_out, wrote, procs >>

\* process_asn(asn) called for one argument of the run: the state of main
\* when line 200 calls it, the cache file being any first cache
InitProcess ==
    /\ pc = "bgpview"
    /\ nargs = 1
    /\ idx = 1
    /\ asn \in Names
    /\ dest_isdir = TRUE
    /\ exit_status = -1
    /\ exc = "none"
    /\ cache \in FirstCaches
    /\ now = 0
    /\ prefixes_bgpview = << >>
    /\ prefixes_ripe = << >>
    /\ prefixes_bgptools = << >>
    /\ combined_prefixes = {}
    /\ sorted_prefixes = << >>
    /\ files = [ n \in Names |-> NoFile ]
    /\ calls = NoCalls
    /\ net = NoNet
    /\ gbl = NoGbl
    /\ norm_in = << >>
    /\ norm_out = Unused
    /\ scan_in = NoScan
    /\ scan_out = Unused
    /\ wrote = "none"
    /\ procs = NoProcs

NextProcess ==
    \/ CallBgpview(BgpviewResponses)
    \/ CallRipe(RipeResponses)
    \/ CallBgptools(CacheEnvs(now))

SpecProcess == InitProcess /\ [][NextProcess]_vars

-----------------------------------------------------------------------------
(* main: the run over the ASN arguments *)

\* what the lookup APIs answer during a whole run: a transport failure, a
\* body that is no JSON, an error status, one prefix, the same prefix twice
RunBgpviewResponses ==
    { r \in BgpviewResponses :
        \/ r.net = "timeout"
        \/ r.net = "ok" /\ r.k = "not_json"
        \/ /\ r.net = "ok" /\ r.k = "obj" /\ r.data = "obj"
           /\ r.list1 = ListOf(<< EntryObj(P9) >>)
           /\ r.list2 \in { ListOf(<< >>), ListOf(<< EntryObj(P9) >>) } }

RunRipeResponses ==
    { r \in RipeResponses :
        \/ r.net = "conn_error"
        \/ r.net = "ok" /\ r.k = "obj" /\ r.status = "error"
        \/ /\ r.net = "ok" /\ r.k = "obj" /\ r.data = "obj"
           /\ r.list1 = ListOf(<< EntryObj(P10) >>) }

\* what the environment does to the cache during a whole run: the download
\* works or times out, the file can be read or cannot, a write works
RunCacheEnvs(last) ==
    { e \in CacheEnvs(last) :
        /\ e.t \in { 3600, 90000 }
        /\ e.net \in { "ok", "timeout" }
        /\ e.body \in { << >>, Table2 }
        /\ e.write = "ok"
        /\ e.read_fresh = e.read_back }

\* the cache file when a whole run starts: none, or Table1 written at time 0
RunFirstCaches == { NoCache, CacheFile(Table1, 0) }

Init ==
    /\ pc = "mkdir"
    /\ nargs \in 1..MaxArgs
    /\ idx = 0
    /\ asn = << >>
    /\ dest_isdir \in BOOLEAN
    /\ exit_status = -1
    /\ exc = "none"
    /\ cache \in RunFirstCaches
    /\ now = 0
    /\ prefixes_bgpview = << >>
    /\ prefixes_ripe = << >>
    /\ prefixes_bgptools = << >>
    /\ combined_prefixes = {}
    /\ sorted_prefixes = << >>
    /\ files = [ n \in Names |-> NoFile ]
    /\ calls = NoCalls
    /\ net = NoNet
    /\ gbl = NoGbl
    /\ norm_in = << >>
    /\ norm_out = Unused
    /\ scan_in = NoScan
    /\ scan_out = Unused
    /\ wrote = "none"
    /\ procs = NoProcs

\* lines 186-194: the destination folder is there, or is created, or
\* cannot be created
EnsureDest ==
    /\ pc = "mkdir"
    /\ \/ /\ dest_isdir
          /\ pc' = "loop"
          /\ UNCHANGED << dest_isdir, exit_status >>
       \/ /\ ~dest_isdir
          /\ dest_isdir' = TRUE
          /\ pc' = "loop"
          /\ UNCHANGED exit_status
       \/ /\ ~dest_isdir
          /\ pc' = "exit"
          /\ exit_status' = 1
          /\ UNCHANGED dest_isdir
    /\ UNCHANGED << nargs, idx, asn, exc, cache, now, prefixes_bgpview,
                    prefixes_ripe, prefixes_bgptools, combined_prefixes,
                    sorted_prefixes, files, calls, net, gbl,
                    norm_in, norm_out, scan_in, scan_out, wrote, procs >>

\* lines 197-200 and 140: the next argument, normalised, and process_asn
\* begins
NextAsn ==
    /\ pc = "loop"
    /\ idx < nargs
    /\ \E asn_input \in ArgPool : asn' = normalize_asn(asn_input)
    /\ idx' = idx + 1
    /\ pc' = "bgpview"
    /\ prefixes_bgpview' = << >>
    /\ prefixes_ripe' = << >>
    /\ prefixes_bgptools' = << >>
    /\ combined_prefixes' = {}
    /\ sorted_prefixes' = << >>
    /\ calls' = NoCalls
    /\ net' = NoNet
    /\ UNCHANGED << nargs, dest_isdir, exit_status, exc, cache, now, files,
                    gbl, norm_in, norm_out, scan_in, scan_out, wrote, procs >>

\* lines 205-207 when they succeed: the file is opened with "w" and holds
\* the lines written, whatever it held (WriteFileAppended: opened with "a")
WriteFileAppended(old, lines) == OutFile(old.lines \o lines)

WriteFile(old, lines) == OutFile(lines)

\* lines 203-210: the output file is written; or open fails and the file is
\* as it was; or open has truncated the file and a write fails.  A failure
\* is printed and the loop goes on.  The lists of process_asn are gone, main
\* holds its result; the counts kept for this ASN end with it.
WriteOutput ==
    /\ pc = "write"
    /\ \/ /\ files' = [ files EXCEPT ![asn] = WriteFile(@, sorted_prefixes) ]
          /\ wrote' = "ok"
       \/ /\ UNCHANGED files
          /\ wrote' = "open_fail"
       \/ /\ \E part \in ProperPrefixes(sorted_prefixes) :
               files' = [ files EXCEPT ![asn] = WriteFile(@, part) ]
          /\ wrote' = "write_fail"
    /\ pc' = "loop"
    /\ prefixes_bgpview' = << >>
    /\ prefixes_ripe' = << >>
    /\ prefixes_bgptools' = << >>
    /\ combined_prefixes' = {}
    /\ calls' = NoCalls
    /\ net' = NoNet
    /\ UNCHANGED << nargs, idx, asn, dest_isdir, exit_status, exc, cache, now,
                    sorted_prefixes, gbl,
                    norm_in, norm_out, scan_in, scan_out, procs >>

\* the loop of line 197 is over: main returns and the status is 0
Finish ==
    /\ pc = "loop"
    /\ idx = nargs
    /\ pc' = "done"
    /\ exit_status' = 0
    /\ UNCHANGED << nargs, idx, asn, dest_isdir, exc, cache, now,
                    prefixes_bgpview, prefixes_ripe, prefixes_bgptools,
                    combined_prefixes, sorted_prefixes, files, calls, net,
                    gbl, norm_in, norm_out, scan_in, scan_out, wrote, procs >>

Next ==
    \/ EnsureDest
    \/ NextAsn
    \/ CallBgpview(RunBgpviewResponses)
    \/ CallRipe(RunRipeResponses)
    \/ CallBgptools(RunCacheEnvs(now))
    \/ WriteOutput
    \/ Finish

Spec == Init /\ [][Next]_vars

-----------------------------------------------------------------------------
(* get_bgptools_lines called again and again on one cache file *)

InitCache ==
    /\ pc = "cache"
    /\ nargs = 0
    /\ idx = 0
    /\ asn = << >>
    /\ dest_isdir = TRUE
    /\ exit_status = -1
    /\ exc = "none"
    /\ cache \in FirstCaches
    /\ now = 0
    /\ prefixes_bgpview = << >>
    /\ prefixes_ripe = << >>
    /\ prefixes_bgptools = << >>
    /\ combined_prefixes = {}
    /\ sorted_prefixes = << >>
    /\ files = [ n \in Names |-> NoFile ]
    /\ calls = NoCalls
    /\ net = NoNet
    /\ gbl = NoGbl
    /\ norm_in = << >>
    /\ norm_out = Unused
    /\ scan_in = NoScan
    /\ scan_out = Unused
    /\ wrote = "none"
    /\ procs = NoProcs

\* lines 13-51: one call; gbl keeps the file as it was, what the
\* environment did and what the call did
CallGetLines ==
    /\ pc = "cache"
    /\ \E e \in CacheEnvs(now) :
         LET g == get_bgptools_lines(cache, e)
         IN  /\ cache' = g.cache
             /\ now' = e.t
             /\ gbl' = [ env |-> e, pre |-> cache,
                         out |-> [ called |-> TRUE ] @@ g ]
    /\ UNCHANGED << pc, nargs, idx, asn, dest_isdir, exit_status, exc,
                    prefixes_bgpview, prefixes_ripe, prefixes_bgptools,
                    combined_prefixes, sorted_prefixes, files, calls, net,
                    norm_in, norm_out, scan_in, scan_out, wrote, procs >>

NextCache == CallGetLines

SpecCache == InitCache /\ [][NextCache]_vars

-----------------------------------------------------------------------------
(* get_bgptools_lines called by two processes at once on one cache file *)

\* two runs of the tool in one directory
Procs == { 1, 2 }

\* the bodies the bulk dataset endpoint answers with
Table3 == << Rec(<< "2" >>, P10), Rec(<< "1" >>, P9) >>
ConcBodies == { Table2, Table3 }

\* the bytes of a file between its end and a write beyond its end: zeros,
\* which are no JSON
Hole == LineBad

\* a write of one line through a handle whose position is after k - 1
\* lines: the line replaces what is there, or lands beyond the end
WriteAt(content, k, line) ==
    IF k <= Len(content) THEN [ content EXCEPT ![k] = line ]
    ELSE content \o [ i \in 1..(k - 1 - Len(content)) |-> Hole ]
                 \o << line >>

\* a call at line 26: nothing fetched, nothing written, nothing returned
ProcAtStart ==
    [ pc |-> "check", body |-> << >>, off |-> 0, ret |-> << >>,
      src |-> "none" ]

\* both calls are made 25 hours after time 0, when the file, if there is
\* one, was written
InitConc ==
    /\ pc = "conc"
    /\ nargs = 0
    /\ idx = 0
    /\ asn = << >>
    /\ dest_isdir = TRUE
    /\ exit_status = -1
    /\ exc = "none"
    /\ cache \in RunFirstCaches
    /\ now = 90000
    /\ prefixes_bgpview = << >>
    /\ prefixes_ripe = << >>
    /\ prefixes_bgptools = << >>
    /\ combined_prefixes = {}
    /\ sorted_prefixes = << >>
    /\ files = [ n \in Names |-> NoFile ]
    /\ calls = NoCalls
    /\ net = NoNet
    /\ gbl = NoGbl
    /\ norm_in = << >>
    /\ norm_out = Unused
    /\ scan_in = NoScan
    /\ scan_out = Unused
    /\ wrote = "none"
    /\ procs = [ p \in Procs |-> ProcAtStart ]

\* what the concurrent calls leave alone: all but the file and themselves
concRest == << pc, nargs, idx, asn, dest_isdir, exit_status, exc, now,
               prefixes_bgpview, prefixes_ripe, prefixes_bgptools,
               combined_prefixes, sorted_prefixes, files, calls, net, gbl,
               norm_in, norm_out, scan_in, scan_out, wrote >>

\* lines 26-28: os.path.exists, getmtime and the comparison
ConcCheck(p) ==
    /\ procs[p].pc = "check"
    /\ procs' = [ procs EXCEPT ![p].pc =
                    IF cache.exists /\ CacheIsFresh(cache.mtime, now)
                    THEN "read" ELSE "fetch" ]
    /\ UNCHANGED << cache, concRest >>

\* lines 29-33: the file is read as it is now, or the read fails and the
\* call goes on to the download
ConcRead(p) ==
    /\ procs[p].pc = "read"
    /\ \/ procs' = [ procs EXCEPT ![p].pc = "done",
                                    ![p].ret = Readlines(cache.content),
                                    ![p].src = "file" ]
       \/ procs' = [ procs EXCEPT ![p].pc = "fetch" ]
    /\ UNCHANGED << cache, concRest >>

\* lines 36-39: the request; a failure leads to the except clause
ConcFetch(p) ==
    /\ procs[p].pc = "fetch"
    /\ \/ \E b \in ConcBodies :
            procs' = [ procs EXCEPT ![p].pc = "open", ![p].body = b ]
       \/ procs' = [ procs EXCEPT ![p].pc = "fallback" ]
    /\ UNCHANGED << cache, concRest >>

\* line 40: open(BGPT_CACHE_FILE, "w") creates the file or truncates it
ConcOpen(p) ==
    /\ procs[p].pc = "open"
    /\ \/ /\ cache' = CacheFile(<< >>, now)
          /\ procs' = [ procs EXCEPT ![p].pc = "write", ![p].off = 0 ]
       \/ /\ procs' = [ procs EXCEPT ![p].pc = "fallback" ]
          /\ UNCHANGED cache
    /\ UNCHANGED concRest

\* line 41 and the end of the with block: the body reaches the file line
\* by line, each at this handle's position; a write can fail
ConcWrite(p) ==
    /\ procs[p].pc = "write"
    /\ procs[p].off < Len(procs[p].body)
    /\ \/ /\ cache' = CacheFile(WriteAt(cache.content, procs[p].off + 1,
                                          procs[p].body[procs[p].off + 1]),
                                  now)
          /\ procs' = [ procs EXCEPT ![p].off = @ + 1 ]
       \/ /\ procs' = [ procs EXCEPT ![p].pc = "fallback" ]
          /\ UNCHANGED cache
    /\ UNCHANGED concRest

\* line 42: the file is closed and the lines of the body are returned
ConcReturn(p) ==
    /\ procs[p].pc = "write"
    /\ procs[p].off = Len(procs[p].body)
    /\ procs' = [ procs EXCEPT ![p].pc = "done",
                                 ![p].ret = Splitlines(procs[p].body),
                                 ![p].src = "body" ]
    /\ UNCHANGED << cache, concRest >>

\* lines 43-51: the except clause reads the file as it is now
ConcFallback(p) ==
    /\ procs[p].pc = "fallback"
    /\ IF cache.exists
       THEN \/ procs' = [ procs EXCEPT ![p].pc = "done",
                                         ![p].ret = Readlines(cache.content),
                                         ![p].src = "file" ]
            \/ procs' = [ procs EXCEPT ![p].pc = "raised" ]
       ELSE procs' = [ procs EXCEPT ![p].pc = "done" ]
    /\ UNCHANGED << cache, concRest >>

NextConc ==
    \/ \E p \in Procs : ConcCheck(p)
    \/ \E p \in Procs : ConcRead(p)
    \/ \E p \in Procs : ConcFetch(p)
    \/ \E p \in Procs : ConcOpen(p)
    \/ \E p \in Procs : ConcWrite(p)
    \/ \E p \in Procs : ConcReturn(p)
    \/ \E p \in Procs : ConcFallback(p)

SpecConc == InitConc /\ [][NextConc]_vars

-----------------------------------------------------------------------------
(* fetch_prefixes_bgptools on every small bulk table *)

\* the lines of a bulk table: the records of the upstream contract and the
\* malformed ones
LinePool ==
    { LineEmpty, LineBad, LineScalar,
      Rec(<< "1" >>, P10), Rec(<< "1" >>, P9), Rec(<< "2" >>, P1),
      LineObj(StrVal(<< "1" >>), StrVal(P10)),
      LineObj(AbsentVal, StrVal(P10)),
      LineObj(IntVal(<< "1" >>), AbsentVal),
      LineObj(IntVal(<< "1" >>), NullVal),
      LineObj(IntVal(<< "1" >>), StrVal(<< >>)) }

\* "AS1", "AS2", "AS 1" (int accepts the blank), "ASX" and "AS"
ScanAsns ==
    { << "A", "S", "1" >>, << "A", "S", "2" >>, << "A", "S", " ", "1" >>,
      << "A", "S", "X" >>, << "A", "S" >> }

\* the table reaches the scan from a fresh cache file (readlines) or from
\* the download (splitlines)
InitScan ==
    /\ pc = "scan"
    /\ nargs = 0
    /\ idx = 0
    /\ asn = << >>
    /\ dest_isdir = TRUE
    /\ exit_status = -1
    /\ exc = "none"
    /\ cache = NoCache
    /\ now = 0
    /\ prefixes_bgpview = << >>
    /\ prefixes_ripe = << >>
    /\ prefixes_bgptools = << >>
    /\ combined_prefixes = {}
    /\ sorted_prefixes = << >>
    /\ files = [ n \in Names |-> NoFile ]
    /\ calls = NoCalls
    /\ net = NoNet
    /\ gbl = NoGbl
    /\ norm_in = << >>
    /\ norm_out = Unused
    /\ scan_in \in [ asn : ScanAsns, table : SeqsUpTo(LinePool, MaxLines),
                     cached : BOOLEAN ]
    /\ scan_out = Unused
    /\ wrote = "none"
    /\ procs = NoProcs

\* lines 111-133
ScanApply ==
    /\ pc = "scan"
    /\ ~scan_out.done
    /\ LET c == IF scan_in.cached THEN CacheFile(scan_in.table, 0)
                ELSE NoCache
           e == CacheEnv(3600, TRUE, "ok", scan_in.table, "ok", << >>, TRUE)
       IN  scan_out' =
             [ done |-> TRUE,
               val |-> fetch_prefixes_bgptools(scan_in.asn, c, e) ]
    /\ UNCHANGED << mainVars, norm_in, norm_out, scan_in >>

NextScan == ScanApply

SpecScan == InitScan /\ [][NextScan]_vars

-----------------------------------------------------------------------------
(* normalize_asn on every short string *)

NormChars == { " ", "a", "s", "A", "S", "1", "x" }

\* arguments longer than MaxLen: a number of one or two digits, with "as",
\* "AS" or nothing in front, and two blanks on either side
PaddedForms ==
    { << " ", " " >> \o p \o d \o << " ", " " >> :
        p \in { << >>, << "a", "s" >>, AS },
        d \in { << "1" >>, << "2", "0" >>, << "9", "1" >> } }

InitNorm ==
    /\ pc = "norm"
    /\ nargs = 0
    /\ idx = 0
    /\ asn = << >>
    /\ dest_isdir = TRUE
    /\ exit_status = -1
    /\ exc = "none"
    /\ cache = NoCache
    /\ now = 0
    /\ prefixes_bgpview = << >>
    /\ prefixes_ripe = << >>
    /\ prefixes_bgptools = << >>
    /\ combined_prefixes = {}
    /\ sorted_prefixes = << >>
    /\ files = [ n \in Names |-> NoFile ]
    /\ calls = NoCalls
    /\ net = NoNet
    /\ gbl = NoGbl
    /\ norm_in \in SeqsUpTo(NormChars, MaxLen) \cup PaddedForms
    /\ norm_out = Unused
    /\ scan_in = NoScan
    /\ scan_out = Unused
    /\ wrote = "none"
    /\ procs = NoProcs

\* lines 53-60
NormalizeApply ==
    /\ pc = "norm"
    /\ ~norm_out.done
    /\ norm_out' = [ done |-> TRUE, val |-> normalize_asn(norm_in) ]
    /\ UNCHANGED << mainVars, norm_in, scan_in, scan_out >>

NextNorm == NormalizeApply

SpecNorm == InitNorm /\ [][NextNorm]_vars

-----------------------------------------------------------------------------
(* Properties of process_asn (SpecProcess) *)

\* the order of strings, defined on its own: a comes before b
RECURSIVE LexBefore(_, _)
LexBefore(a, b) ==
    IF b = << >> THEN FALSE
    ELSE IF a = << >> THEN TRUE
    ELSE IF Head(a) = Head(b) THEN LexBefore(Tail(a), Tail(b))
    ELSE Ord(Head(a)) < Ord(Head(b))

ProcessReturned == pc = "write"
ProcessEnded == pc \in { "write", "crashed" }

\* C1: no exception crosses an adapter boundary into process_asn: whatever
\* the upstream does, each adapter call returns a list and never raises.
C1_NoExceptionCrossesAdapter == exc = "none"

\* the request of adapter a failed in transport
TransportFailed(a) == net[a] # << >> /\ net[a][1] \in TransportFailures

\* the exception that ended the run left adapter a: a is the last one called
RaisedIn(a) ==
    /\ pc = "crashed"
    /\ CASE a = "bgpview" -> calls.ripe = 0
         [] a = "ripe" -> calls.ripe = 1 /\ calls.bgptools = 0
         [] a = "bgptools" -> calls.bgptools = 1

\* C2: a transport failure of an adapter's network fetch yields an empty
\* result list and raises nothing, for the bulk table adapter whatever the
\* state of the cache file.
C2_TransportFailureYieldsEmpty ==
    /\ TransportFailed("bgpview") =>
         prefixes_bgpview = << >> /\ ~RaisedIn("bgpview")
    /\ TransportFailed("ripe") =>
         prefixes_ripe = << >> /\ ~RaisedIn("ripe")
    /\ TransportFailed("bgptools") =>
         prefixes_bgptools = << >> /\ ~RaisedIn("bgptools")

\* C3: for every combination of success and failure of the three sources,
\* each adapter is invoked exactly once for the ASN: a failing adapter does
\* not keep the later ones from running.
C3_EachAdapterInvokedOnce ==
    ProcessEnded =>
        calls.bgpview = 1 /\ calls.ripe = 1 /\ calls.bgptools = 1

\* C4: for every triple of lists the adapters return, process_asn returns
\* exactly the strings of the three lists, each once, in strictly
\* ascending string order; three empty lists give the empty list.
C4_SortedUnion ==
    ProcessReturned =>
        LET out == sorted_prefixes
        IN  /\ Range(out) = Range(prefixes_bgpview) \cup Range(prefixes_ripe)
                                \cup Range(prefixes_bgptools)
            /\ \A i, j \in 1..Len(out) : i < j => out[i] # out[j]
            /\ \A i \in 1..(Len(out) - 1) : LexBefore(out[i], out[i + 1])
            /\ (/\ prefixes_bgpview = << >>
                /\ prefixes_ripe = << >>
                /\ prefixes_bgptools = << >>) => out = << >>

\* C4's case: the three sources overlap and three strings come out, "1",
\* "10" and "9" in that order
C4_Witness ==
    /\ ProcessReturned
    /\ sorted_prefixes = << P1, P10, P9 >>
    /\ Range(prefixes_bgpview) \cap Range(prefixes_ripe) # {}
    /\ prefixes_bgptools # << >>

\* the merge of lines 140-172 with the three lists taken in the order x, y, z
MergeInOrder(x, y, z) == Sorted(AddAll(AddAll(AddAll({}, x), y), z))

\* C5: the result is the same whichever adapter supplied which list and in
\* whichever order the lists are merged, and merging a list a second time,
\* or listing its elements twice, changes nothing.
C5_MergeCommutesAndIsIdempotent ==
    ProcessReturned =>
        LET a == prefixes_bgpview
            b == prefixes_ripe
            c == prefixes_bgptools
            out == sorted_prefixes
        IN  /\ MergeInOrder(a, c, b) = out
            /\ MergeInOrder(b, a, c) = out
            /\ MergeInOrder(b, c, a) = out
            /\ MergeInOrder(c, a, b) = out
            /\ MergeInOrder(c, b, a) = out
            /\ MergeInOrder(a \o a, b, c \o b) = out
            /\ Sorted(AddAll(AddAll(Range(out), c), a)) = out

\* C5's case: three different non-empty lists, one with an element twice
C5_Witness ==
    /\ ProcessReturned
    /\ prefixes_bgpview = << P9, P9 >>
    /\ prefixes_ripe = << P10 >>
    /\ prefixes_bgptools = << P1 >>

\* the text of an ASN after its "AS"
AfterAS(a) ==
    IF Len(a) >= 2 /\ a[1] = "A" /\ a[2] = "S"
    THEN [ k \in 1..(Len(a) - 2) |-> a[k + 2] ]
    ELSE a

\* s is the text of an integer: digits, with a sign in front or not and
\* blanks around them or not
IsIntegerText(s) ==
    \E p, q \in 0..Len(s), sign \in { << >>, << "-" >> },
       d \in SubSeqsOf(s) :
        /\ d # << >>
        /\ \A k \in 1..Len(d) : d[k] \in { "0", "1", "2", "9" }
        /\ s = Blanks(p) \o sign \o d \o Blanks(q)

\* C17: when the ASN given to fetch_prefixes_bgptools is no integer after
\* its "AS", the adapter returns the empty list and raises nothing, and
\* the cache is not consulted: get_bgptools_lines is not called, no request
\* is made, the cache file is as it was; the two other adapters have been
\* invoked for that ASN.
C17_InvalidAsnSkipsBulkTable ==
    [][ (pc = "bgptools" /\ ~IsIntegerText(AfterAS(asn))) =>
          /\ pc' = "write"
          /\ exc' = "none"
          /\ prefixes_bgptools' = << >>
          /\ calls'.bgptools = 1
          /\ calls'.lines = 0
          /\ net'.bgptools = << >>
          /\ cache' = cache
          /\ calls'.bgpview = 1
          /\ calls'.ripe = 1 ]_vars

\* C17's case: "ASX" has been through the three adapters, the two lookup
\* adapters gave prefixes and the bulk table was left alone
C17_Witness ==
    /\ pc = "write"
    /\ asn = << "A", "S", "X" >>
    /\ calls = [ bgpview |-> 1, ripe |-> 1, bgptools |-> 1, lines |-> 0 ]
    /\ prefixes_bgpview # << >>
    /\ prefixes_ripe # << >>
    /\ prefixes_bgptools = << >>
    /\ sorted_prefixes = << P10, P9 >>

-----------------------------------------------------------------------------
(* Properties of get_bgptools_lines (SpecCache) *)

Called == gbl.out.called
\* the cache file's age when the call read the clock
AgeAtCall == gbl.env.t - gbl.pre.mtime
\* the lines of a blob, whatever ends them
SameLines(lines, content) ==
    /\ Len(lines) = Len(content)
    /\ \A i \in 1..Len(content) : lines[i].text = content[i]

\* C6 as stated: whenever the cache file exists and is less than 86400
\* seconds old, the call returns the file's lines, makes no network call
\* and does not write the file.
C6_FreshCacheServed ==
    (Called /\ gbl.pre.exists /\ AgeAtCall < BGPT_CACHE_EXPIRATION) =>
        /\ SameLines(gbl.out.ret, gbl.pre.content)
        /\ ~gbl.out.fetched
        /\ ~gbl.out.written
        /\ cache = gbl.pre

\* C6 as amended: the same, provided the read of the cache file succeeds.
C6_FreshReadableCacheServed ==
    (Called /\ gbl.pre.exists /\ AgeAtCall < BGPT_CACHE_EXPIRATION /\ gbl.env.read_fresh) =>
        /\ SameLines(gbl.out.ret, gbl.pre.content)
        /\ gbl.out.exc = "none"
        /\ ~gbl.out.fetched
        /\ ~gbl.out.written
        /\ cache = gbl.pre

\* C6's case: a cache file one hour old, with lines in it, is served
C6_Witness ==
    /\ Called
    /\ gbl.pre = CacheFile(Table1, 0)
    /\ gbl.env.t = 3600
    /\ gbl.env.read_fresh
    /\ Len(gbl.out.ret) = 3

\* C7 as stated: a network fetch is attempted exactly when the cache file
\* is absent or more than 86400 seconds old; when the fetch succeeds the
\* file holds exactly the response body and the body's lines are returned.
C7_RefreshWhenAbsentOrOlder ==
    Called =>
        /\ gbl.out.fetched <=> (~gbl.pre.exists \/ AgeAtCall > BGPT_CACHE_EXPIRATION)
        /\ (gbl.out.fetched /\ gbl.env.net = "ok") =>
             /\ cache.exists
             /\ cache.content = gbl.env.body
             /\ SameLines(gbl.out.ret, gbl.env.body)

\* C7 as amended: a network fetch is attempted exactly when the cache file
\* is absent, is at least 86400 seconds old, or is fresh and cannot be
\* read; when the fetch and the write of the file succeed, the file holds
\* exactly the response body and the body's lines are returned.
C7_RefreshWhenAbsentStaleOrUnreadable ==
    Called =>
        /\ gbl.out.fetched <=>
             \/ ~gbl.pre.exists
             \/ AgeAtCall >= BGPT_CACHE_EXPIRATION
             \/ ~gbl.env.read_fresh
        /\ (gbl.out.fetched /\ gbl.env.net = "ok" /\ gbl.env.write = "ok") =>
             /\ cache.exists
             /\ cache.content = gbl.env.body
             /\ SameLines(gbl.out.ret, gbl.env.body)
             /\ gbl.out.exc = "none"

\* C7's case: a file 25 hours old is replaced by a different body
C7_Witness ==
    /\ Called
    /\ gbl.pre = CacheFile(Table1, 0)
    /\ gbl.env.t = 90000
    /\ gbl.out.fetched
    /\ gbl.env.net = "ok"
    /\ gbl.env.write = "ok"
    /\ gbl.env.body = Table2
    /\ cache.content = Table2

\* C8: when the refresh fails and a cache file exists, even a stale one,
\* the lines of that file are returned; when none exists, the empty
\* sequence; in neither case does get_bgptools_lines raise.
C8_FallbackNeverRaises ==
    (Called /\ gbl.out.fetched /\ gbl.env.net \in TransportFailures) =>
        /\ gbl.out.exc = "none"
        /\ gbl.pre.exists => SameLines(gbl.out.ret, gbl.pre.content)
        /\ ~gbl.pre.exists => gbl.out.ret = << >>

\* the call downloaded the dataset and wrote it to the cache file
Refreshed ==
    gbl.out.fetched /\ gbl.env.net = "ok" /\ gbl.env.write = "ok"

\* C15: the cache file is created or overwritten only by a successful
\* download: a call that serves the fresh cache, or whose refresh fails
\* (network error, status, timeout, or a failure while writing the file),
\* leaves the file's content and modification time as they were, and the
\* fallback read returns the lines the file held before the call.
C15_CacheWrittenOnlyOnSuccess ==
    (Called /\ ~Refreshed) =>
        /\ cache = gbl.pre
        /\ ~gbl.out.written
        /\ (gbl.out.fetched /\ gbl.pre.exists /\ gbl.out.exc = "none") =>
             SameLines(gbl.out.ret, gbl.pre.content)

\* C16: over the calls of one run, stated for each call and the one after
\* it: the call that follows a successful download and write, less than
\* 86400 seconds later, is served from the cache file with no request and
\* no write (and so leaves the file to the calls after it); and the call
\* that follows a refresh that failed and returned makes a new attempt.
C16_ReadMostlyAfterFirstRefresh ==
    [][ (Called /\ gbl.out.exc = "none") =>
          /\ (Refreshed /\ gbl'.env.t - gbl.env.t < BGPT_CACHE_EXPIRATION) =>
               /\ ~gbl'.out.fetched
               /\ ~gbl'.out.written
               /\ cache' = cache
          /\ (gbl.out.fetched /\ ~Refreshed) => gbl'.out.fetched ]_vars

-----------------------------------------------------------------------------
(* Properties of concurrent calls of get_bgptools_lines (SpecConc) *)

\* the call of process p holds the cache file open for writing
Writing(p) == procs[p].pc = "write"

\* what the cache file can hold as a whole: the table it held when the
\* calls began, or a body of the endpoint
CompleteBlobs == { Table1 } \cup ConcBodies

\* the texts of the lines a call returned
TextsOf(lines) == [ i \in 1..Len(lines) |-> lines[i].text ]

\* C19: when two calls of get_bgptools_lines run at once and find the
\* cache file absent or stale, the two refreshes never have the file open
\* for writing at the same time, and a call that has not itself opened the
\* file for writing never reads from it an empty or partly written table.
C19_NoConcurrentWriteNoPartialRead ==
    /\ ~(Writing(1) /\ Writing(2))
    /\ \A p \in Procs :
         (procs[p].src = "file" /\ procs[p].body = << >>) =>
             TextsOf(procs[p].ret) \in CompleteBlobs

-----------------------------------------------------------------------------
(* Properties of fetch_prefixes_bgptools (SpecScan) *)

WellFormedAsn(a) == StartsWith(a, AS) /\ IsDigits(DropTwo(a))

\* the positions of the table whose line is a record of ASN n with a
\* CIDR that is a non-empty string
MatchingLines(table, n) ==
    { i \in 1..Len(table) :
        /\ table[i].k = "obj"
        /\ table[i].asn.t = "int"
        /\ DecimalValue(table[i].asn.v) = n
        /\ table[i].cidr.t = "str"
        /\ Len(table[i].cidr.v) > 0 }

\* the k-th smallest element of a set of numbers
Kth(S, k) == CHOOSE i \in S : Cardinality({ j \in S : j <= i }) = k

\* C9: for a well-formed ASN and every sequence of lines, the adapter
\* returns, in line order, exactly the CIDR of each line that is a record
\* of the target ASN with a non-empty CIDR; an empty or unparsable line is
\* skipped and takes nothing away from the lines around it.
C9_ScanReturnsMatchingCidrs ==
    (scan_out.done /\ WellFormedAsn(scan_in.asn)) =>
        LET m == MatchingLines(scan_in.table,
                               DecimalValue(DropTwo(scan_in.asn)))
        IN  /\ scan_out.val.exc = "none"
            /\ scan_out.val.val =
                 [ k \in 1..Cardinality(m) |->
                     scan_in.table[Kth(m, k)].cidr.v ]

\* C9's case: a matching record after a line that is no JSON
C9_Witness ==
    /\ scan_out.done
    /\ scan_in.asn = << "A", "S", "1" >>
    /\ scan_in.table = << LineBad, Rec(<< "1" >>, P10) >>
    /\ scan_out.val.val = << P10 >>

-----------------------------------------------------------------------------
(* Properties of normalize_asn (SpecNorm) *)

NoLowerCase(s) == \A i \in 1..Len(s) : ~IsLowerChar(s[i])

\* the argument without the blanks around it and without a leading "AS"
\* in either case
CoreOfInput(a) ==
    LET s == Strip(a)
    IN  IF Len(s) >= 2 /\ s[1] \in { "a", "A" } /\ s[2] \in { "s", "S" }
        THEN DropTwo(s)
        ELSE s

\* C10 as stated: for every input string the output is upper-case, begins
\* with "AS", and the text after "AS" is a non-negative integer.
C10_OutputWellFormed ==
    norm_out.done =>
        /\ NoLowerCase(norm_out.val)
        /\ StartsWith(norm_out.val, AS)
        /\ IsDigits(DropTwo(norm_out.val))

\* C10 as amended: for every input string the output is upper-case and
\* begins with "AS"; the text after "AS" is a non-negative integer exactly
\* when the trimmed input, less a leading "AS" in either case, is a
\* non-empty string of digits.
C10_OutputPrefixedUpperCase ==
    norm_out.done =>
        /\ NoLowerCase(norm_out.val)
        /\ StartsWith(norm_out.val, AS)
        /\ IsDigits(DropTwo(norm_out.val)) <=> IsDigits(CoreOfInput(norm_in))

\* C10's case: a lower-case argument with blanks around it
C10_Witness ==
    /\ norm_out.done
    /\ norm_in = << " ", "a", "s", "1" >>
    /\ norm_out.val = << "A", "S", "1" >>

\* t is a with the whitespace around it taken away
IsTrimOf(t, a) ==
    /\ t = << >> \/ (t[1] \notin Whitespace /\ t[Len(t)] \notin Whitespace)
    /\ \E p, q \in 0..Len(a) : a = Blanks(p) \o t \o Blanks(q)

\* u is t with its lower-case letters replaced by their capitals
IsUpperOf(u, t) ==
    /\ Len(u) = Len(t)
    /\ \A k \in 1..Len(t) :
         \/ ~IsLowerChar(t[k]) /\ u[k] = t[k]
         \/ << t[k], u[k] >> \in { << "a", "A" >>, << "s", "S" >>,
                                   << "x", "X" >> }

\* the four ways of writing the number d: "d", "asd", "ASd", and "ASd"
\* with blanks around it
WritingsOf(d) ==
    { d, << "a", "s" >> \o d, AS \o d }
        \cup { Blanks(p) \o AS \o d \o Blanks(q) : p, q \in 0..MaxLen }

\* C11: normalize_asn trims the whitespace around its argument, upper-cases
\* the token and puts "AS" in front exactly when the trimmed upper-cased
\* token does not begin with "AS"; so a number d written "d", "asd", "ASd"
\* or "  ASd  " gives exactly "ASd"; and normalising the result again
\* gives the result.
C11_NormalizeTrimsUppercasesPrefixes ==
    norm_out.done =>
        /\ \E t \in SubSeqsOf(norm_in) :
             /\ IsTrimOf(t, norm_in)
             /\ \E u \in SubSeqsOf(norm_out.val) :
                  /\ IsUpperOf(u, t)
                  /\ (Len(u) >= 2 /\ u[1] = "A" /\ u[2] = "S") =>
                       norm_out.val = u
                  /\ ~(Len(u) >= 2 /\ u[1] = "A" /\ u[2] = "S") =>
                       norm_out.val = << "A", "S" >> \o u
        /\ \A d \in SubSeqsOf(norm_in) :
             (IsDigits(d) /\ norm_in \in WritingsOf(d)) =>
                 norm_out.val = << "A", "S" >> \o d
        /\ normalize_asn(norm_out.val) = norm_out.val

\* C11's case: "  AS20  ", blanks on both sides of an upper-case writing
C11_Witness ==
    /\ norm_out.done
    /\ norm_in = << " ", " ", "A", "S", "2", "0", " ", " " >>
    /\ norm_out.val = << "A", "S", "2", "0" >>

-----------------------------------------------------------------------------
(* Properties of main (Spec) *)

\* the last write of an output file failed
WriteFailed == wrote \in { "open_fail", "write_fail" }

\* C12: a failure to write the output file of one ASN does not abort the
\* run: after it the run goes on through the arguments that follow, each
\* normalised, aggregated and written in turn, and comes to the end of the
\* argument list; it is never ended before that.
C12_WriteFailureDoesNotEndRun ==
    WriteFailed =>
        \/ pc = "done" /\ idx = nargs /\ exit_status = 0
        \/ /\ pc \in { "loop", "bgpview", "ripe", "bgptools", "write" }
           /\ idx <= nargs
           /\ exit_status = -1

\* C13: the exit status reflects only the destination folder: when the
\* folder is absent and cannot be created the run ends with a status other
\* than zero before any ASN is processed (no adapter call, no request, no
\* access to the cache, no output file); every other run, whatever the
\* sources and the writes do, ends after the last ASN with status zero.
C13_ExitStatusReflectsOnlyDestFolder ==
    /\ pc = "exit" =>
         /\ exit_status > 0
         /\ idx = 0
         /\ calls = NoCalls
         /\ net = NoNet
         /\ now = 0
         /\ cache.mtime = 0
         /\ \A n \in Names : ~files[n].exists
    /\ (exit_status # -1 /\ pc # "exit") =>
         /\ exit_status = 0
         /\ idx = nargs
    /\ (exit_status # -1 /\ exit_status # 0) => (pc = "exit" /\ ~dest_isdir)

\* C14: for each ASN whose write succeeds, the file named after the
\* normalised ASN holds exactly the strings the three adapters returned for
\* that ASN, one per line, each once, in ascending string order, whatever
\* the file held from an earlier ASN of the run; the other files are as
\* they were.
C14_FileHoldsSortedUnion ==
    [][ (pc = "write" /\ wrote' = "ok") =>
          LET out == files'[asn].lines
          IN  /\ files'[asn].exists
              /\ Range(out) = Range(prefixes_bgpview) \cup Range(prefixes_ripe)
                                  \cup Range(prefixes_bgptools)
              /\ \A i \in 1..(Len(out) - 1) : LexBefore(out[i], out[i + 1])
              /\ \A n \in Names \ { asn } : files'[n] = files[n] ]_vars

\* C14's case: the second argument of a run is written: its file holds
\* "1", "10" and "9" in that order and no other file is there
C14_Witness ==
    /\ pc = "loop"
    /\ idx = 2
    /\ wrote = "ok"
    /\ asn = << "A", "S", "1" >>
    /\ files[asn] = OutFile(<< P1, P10, P9 >>)
    /\ \A n \in Names \ { asn } : ~files[n].exists

\* what a scan of the cache file as it is gives for the ASN of the run
FallbackOf(c, a) ==
    IF ~c.exists THEN << >>
    ELSE LET m == MatchingLines(c.content, DecimalValue(AfterAS(a)))
         IN  [ k \in 1..Cardinality(m) |-> c.content[Kth(m, k)].cidr.v ]

\* C18: no retry: for each ASN no adapter is invoked more than once, a
\* lookup adapter issues exactly one request when invoked and the bulk
\* table adapter at most one, through get_bgptools_lines; after a request
\* that failed the adapter's result for that ASN is empty, or for the bulk
\* table what the cache file holds.
C18_NoRetry ==
    /\ \A a \in { "bgpview", "ripe", "bgptools", "lines" } : calls[a] <= 1
    /\ Len(net.bgpview) = calls.bgpview
    /\ Len(net.ripe) = calls.ripe
    /\ Len(net.bgptools) <= calls.lines
    /\ calls.lines <= calls.bgptools
    /\ TransportFailed("bgpview") => prefixes_bgpview = << >>
    /\ TransportFailed("ripe") => prefixes_ripe = << >>
    /\ (TransportFailed("bgptools") /\ pc = "write") =>
         prefixes_bgptools = FallbackOf(cache, asn)

\* C18's case: for the second ASN of a run the three requests fail, each
\* was issued once, and the bulk table adapter answers from the stale file
C18_Witness ==
    /\ pc = "write"
    /\ idx = 2
    /\ TransportFailed("bgpview")
    /\ TransportFailed("ripe")
    /\ TransportFailed("bgptools")
    /\ Len(net.bgptools) = 1
    /\ prefixes_bgptools = << P10 >>
    /\ sorted_prefixes = << P10 >>

=============================================================================
